---- MODULE Spec2Model ----
(***************************************************************************)
(* Master Outline (TOC editor): the persisted outline behind the HTTP      *)
(* surface (tree mutation engine, import normalizer, tree assembler) and   *)
(* the React client of frontend/src (App, SectionRow, api.ts).             *)
(*                                                                         *)
(* The backend's code is not part of the sources; its operators are        *)
(* modelled from the design document (sections 3 to 7).  The client's      *)
(* operators are translated from frontend/src.                             *)
(***************************************************************************)
EXTENDS Integers, Sequences, FiniteSets, TLC

\* ------------------------------------------------------------------ bounds

\* Identifiers ever assigned by the store (ids are never reused).
MaxId == 3
\* Records of one import batch.
MaxBatch == 3
\* Committed mutations the display may lag behind (requests of other API
\* callers, fetches that failed).
MaxStale == 1
\* Nodes of the outlines single operations are applied to.
MaxNodes == 4

\* ------------------------------------------------------------------ values

\* parent_id: string | null.  Ids are 1..MaxId, null is 0.
Null == 0
Ids == 1..MaxId

\* Names are character sequences, so that trimming is computed.
\* Names in requests of API callers, and drafts typed into a row.
NameInputs == {<<>>, <<" ">>, <<"a">>, <<"b">>}
DraftInputs == {<<" ">>, <<"a">>, <<" ", "b">>}
Positions == {"before", "after"}
Strategies == {"lift_children", "cascade"}

\* ------------------------------------------------------- sequence helpers

Range(s) == {s[i] : i \in 1..Len(s)}

\* Array.prototype.findIndex with (n) => n.id === id: 0-based, -1 when absent.
findIndex(list, id) ==
  IF \E i \in 1..Len(list) : list[i].id = id
  THEN (CHOOSE i \in 1..Len(list) :
          list[i].id = id /\ \A j \in 1..(i - 1) : list[j].id # id) - 1
  ELSE -1

\* list.splice(at, 1) on a copy: the list without its element at 0-based at.
spliceOut(list, at) ==
  [i \in 1..(Len(list) - 1) |-> IF i <= at THEN list[i] ELSE list[i + 1]]

\* JavaScript's splice start: negative counts from the end, then clamped.
spliceStart(len, at) ==
  IF at < 0 THEN (IF len + at < 0 THEN 0 ELSE len + at)
  ELSE IF at > len THEN len ELSE at

\* list.splice(at, 0, x) on a copy: x inserted at 0-based at.
\* spliceIn that inserts nothing.
spliceNothing(list, at, x) == list

spliceIn(list, at, x) ==
  LET k == spliceStart(Len(list), at)
  IN [i \in 1..(Len(list) + 1) |->
        IF i <= k THEN list[i] ELSE IF i = k + 1 THEN x ELSE list[i - 1]]

\* String.prototype.trim on a character sequence.
RECURSIVE trimStart(_)
trimStart(s) == IF s # <<>> /\ Head(s) = " " THEN trimStart(Tail(s)) ELSE s

RECURSIVE trimEnd(_)
trimEnd(s) ==
  IF s # <<>> /\ s[Len(s)] = " " THEN trimEnd(SubSeq(s, 1, Len(s) - 1)) ELSE s

trim(s) == trimEnd(trimStart(s))

\* ------------------------------------------------- the persisted node table
\* A store is a function from the existing ids to rows
\* [parent_id, name, order] (design document, section 3 and section 9:
\* a flat table keyed by id with a parent_id back-reference).

Row(p, n, o) == [parent_id |-> p, name |-> n, order |-> o]

EmptyStore == [i \in {} |-> Row(Null, <<>>, 0)]

\* Tree Accessor ----------------------------------------------------------

getNode(st, id) == IF id \in DOMAIN st THEN st[id] ELSE Null

GroupIds(st, p) == {i \in DOMAIN st : st[i].parent_id = p}

\* The ids of S by order ascending (ties, which a dense group never has, by id).
RECURSIVE SortByOrder(_, _)
SortByOrder(st, S) ==
  IF S = {} THEN <<>>
  ELSE LET m == CHOOSE i \in S :
                  \A j \in S : st[i].order < st[j].order
                               \/ (st[i].order = st[j].order /\ i <= j)
       IN <<m>> \o SortByOrder(st, S \ {m})

getSiblings(st, parentId) == SortByOrder(st, GroupIds(st, parentId))

\* The node and all of its transitive descendants.
RECURSIVE Descend(_, _)
Descend(st, S) ==
  LET kids == {i \in DOMAIN st : st[i].parent_id \in S} \ S
  IN IF kids = {} THEN S ELSE Descend(st, S \cup kids)

getSubtreeIds(st, id) == Descend(st, {id})

\* Order Codec --------------------------------------------------------------
\* An ordered list of sibling ids to the mapping id -> contiguous order 1..N.

OrderCodec(seq) ==
  [id \in Range(seq) |-> CHOOSE i \in 1..Len(seq) : seq[i] = id]

\* The caller persists the mapping.
PersistOrders(st, seq) ==
  LET m == OrderCodec(seq)
  IN [i \in DOMAIN st |->
        IF i \in DOMAIN m THEN [st[i] EXCEPT !.order = m[i]] ELSE st[i]]

Renumber(st, parentId) == PersistOrders(st, getSiblings(st, parentId))

\* Transactions ---------------------------------------------------------
\* An operation computes its writes from the state it read; the rows it
\* changes are written one at a time (ascending id).  A store failure may
\* strike after any number of them; the transaction then rolls back.

ChangedIds(pre, post) ==
  {i \in (DOMAIN pre) \cup (DOMAIN post) :
     \/ i \notin DOMAIN pre
     \/ i \notin DOMAIN post
     \/ pre[i] # post[i]}

\* The store with the rows of W (a subset of the changed ids) written.
WithWrites(pre, post, W) ==
  [i \in ((DOMAIN pre) \ (W \ DOMAIN post)) \cup (W \cap DOMAIN post) |->
     IF i \in W THEN post[i] ELSE pre[i]]

\* The working copy after the first k writes.
PartialWrite(pre, post, k) ==
  WithWrites(pre, post,
             {i \in ChangedIds(pre, post) :
                Cardinality({j \in ChangedIds(pre, post) : j < i}) < k})

\* A rollback that keeps what was written.
KeepWritten(pre, working) == working

Rollback(pre, working) == pre

Ok(st) == [ok |-> TRUE, err |-> "", store |-> st]
Fail(kind, st) == [ok |-> FALSE, err |-> kind, store |-> st]

\* The outcomes of a transaction that means to turn pre into post: it
\* commits, or the store fails after k row writes (k = all of them: at
\* commit) and the transaction rolls back.
Transact(pre, post) ==
  {Ok(post)} \cup
  {Fail("StoreError", Rollback(pre, PartialWrite(pre, post, k))) :
     k \in 0..Cardinality(ChangedIds(pre, post))}

\* ------------------------------------------------------- Mutation Engine
\* Every operation yields the set of its possible results [ok, err, store]:
\* the outcome, the error kind and the persisted table after it.

\* seq with x placed immediately before/after anchor (anchor is in seq).
InsertRelative(seq, x, anchor, position) ==
  LET a == CHOOSE i \in 1..Len(seq) : seq[i] = anchor
      at == IF position = "before" THEN a ELSE a + 1
  IN [i \in 1..(Len(seq) + 1) |->
        IF i < at THEN seq[i] ELSE IF i = at THEN x ELSE seq[i - 1]]

Without(seq, x) == SelectSeq(seq, LAMBDA y : y # x)

\* Rename(id, newName)
RenameOp(st, id, newName) ==
  IF trim(newName) = <<>> THEN {Fail("ValidationError", st)}
  ELSE IF id \notin DOMAIN st THEN {Fail("NotFoundError", st)}
  ELSE IF st[id].name = newName THEN {Ok(st)}
  ELSE Transact(st, [st EXCEPT ![id].name = newName])

\* The parent and the sibling sequence a Create asks for.
CreateParent(st, parentId, anchorId) ==
  IF anchorId # Null THEN st[anchorId].parent_id ELSE parentId

CreateSequence(st, newId, parentId, anchorId, anchorPosition) ==
  LET sibs == getSiblings(st, CreateParent(st, parentId, anchorId))
  IN IF anchorId # Null
     THEN InsertRelative(sibs, newId, anchorId, anchorPosition)
     ELSE Append(sibs, newId)

\* The table after a Create that passed validation.
CreateInsert(st, newId, name, parentId, anchorId, anchorPosition) ==
  LET p == CreateParent(st, parentId, anchorId)
      inserted == [i \in (DOMAIN st) \cup {newId} |->
                     IF i = newId THEN Row(p, name, 0) ELSE st[i]]
  IN PersistOrders(inserted,
                   CreateSequence(st, newId, parentId, anchorId, anchorPosition))

\* Create(name, parentId, anchorId?, anchorPosition?).  A supplied parentId
\* that disagrees with the anchor's parent "must agree or is inferred from
\* the anchor": the request is rejected, or the anchor's parent is used.
CreateOp(st, newId, name, parentId, anchorId, anchorPosition) ==
  IF trim(name) = <<>> THEN {Fail("ValidationError", st)}
  ELSE IF parentId # Null /\ parentId \notin DOMAIN st THEN {Fail("NotFoundError", st)}
  ELSE IF anchorId # Null /\ anchorId \notin DOMAIN st THEN {Fail("NotFoundError", st)}
  ELSE (IF anchorId # Null /\ parentId # Null /\ parentId # st[anchorId].parent_id
        THEN {Fail("ConflictError", st)} ELSE {})
       \cup Transact(st, CreateInsert(st, newId, name, parentId, anchorId, anchorPosition))

\* Delete(id, cascade): the subtree goes, the remaining siblings are renumbered.
DeleteCascade(st, id) ==
  LET gone == getSubtreeIds(st, id)
      kept == [i \in (DOMAIN st) \ gone |-> st[i]]
  IN Renumber(kept, st[id].parent_id)

\* LiftSequence with the children after the remaining siblings.
LiftToEnd(st, id) ==
  Without(getSiblings(st, st[id].parent_id), id) \o getSiblings(st, id)

\* The merged sibling sequence: the children in the deleted node's slot.
LiftSequence(st, id) ==
  LET sibs == getSiblings(st, st[id].parent_id)
      at == CHOOSE i \in 1..Len(sibs) : sibs[i] = id
  IN SubSeq(sibs, 1, at - 1) \o getSiblings(st, id) \o SubSeq(sibs, at + 1, Len(sibs))

\* Delete(id, lift_children): the direct children move to the deleted node's
\* parent, then the node is removed and the merged group renumbered.
DeleteLift(st, id) ==
  LET p == st[id].parent_id
      lifted == [i \in (DOMAIN st) \ {id} |->
                   IF st[i].parent_id = id THEN [st[i] EXCEPT !.parent_id = p]
                   ELSE st[i]]
  IN PersistOrders(lifted, LiftSequence(st, id))

DeleteOp(st, id, strategy) ==
  IF id \notin DOMAIN st THEN {Fail("NotFoundError", st)}
  ELSE IF strategy = "cascade" THEN Transact(st, DeleteCascade(st, id))
  ELSE Transact(st, DeleteLift(st, id))

\* The sibling sequence after Move: sectionId leaves its slot and re-enters
\* immediately before/after the target's new position.
MoveSequence(st, sectionId, targetSectionId, position) ==
  InsertRelative(Without(getSiblings(st, st[sectionId].parent_id), sectionId),
                 sectionId, targetSectionId, position)

\* Move(sectionId, targetSectionId, position)
MoveOp(st, sectionId, targetSectionId, position) ==
  IF sectionId = targetSectionId THEN {Fail("ConflictError", st)}
  ELSE IF sectionId \notin DOMAIN st \/ targetSectionId \notin DOMAIN st
       THEN {Fail("ConflictError", st)}
  ELSE IF st[sectionId].parent_id # st[targetSectionId].parent_id
       THEN {Fail("ConflictError", st)}
  ELSE Transact(st,
                PersistOrders(st, MoveSequence(st, sectionId, targetSectionId, position)))

\* ------------------------------------------------------ Import Normalizer
\* A flat record is [key, name, parent_key, order]; key "" and order 0 stand
\* for an absent field.

ImportRecord(k, n, pk, o) == [key |-> k, name |-> n, parent_key |-> pk, order |-> o]

\* (1) the internal key: the supplied key, else the sequence position.
InternalKey(records, i) ==
  IF records[i].key # "" THEN records[i].key ELSE ToString(i)

\* HasDuplicateKey that finds none.
HasNoDuplicateKey(records) == FALSE

HasDuplicateKey(records) ==
  \E i, j \in 1..Len(records) :
     i < j /\ InternalKey(records, i) = InternalKey(records, j)

\* (2) the record a parent_key resolves to; 0 (root) when absent or unresolvable.
ResolveParent(records, i) ==
  IF \E j \in 1..Len(records) : InternalKey(records, j) = records[i].parent_key
  THEN CHOOSE j \in 1..Len(records) : InternalKey(records, j) = records[i].parent_key
  ELSE 0

\* (3) a cycle: some record still has an ancestor after Len(records) steps up.
RECURSIVE Ancestor(_, _, _)
Ancestor(records, i, steps) ==
  IF i = 0 \/ steps = 0 THEN i
  ELSE Ancestor(records, ResolveParent(records, i), steps - 1)

\* HasCycle that finds none.
HasNoCycle(records) == FALSE

HasCycle(records) ==
  \E i \in 1..Len(records) : Ancestor(records, i, Len(records)) # 0

\* (4) the order of a record: explicit, else its position within its group.
ImportGroup(records, p) ==
  {i \in 1..Len(records) : ResolveParent(records, i) = p}

ImportOrder(records, i) ==
  IF records[i].order # 0 THEN records[i].order
  ELSE Cardinality({j \in ImportGroup(records, ResolveParent(records, i)) : j <= i})

\* The rank (1..N) of record i in its group: by order, then input position.
ImportRank(records, i) ==
  Cardinality({j \in ImportGroup(records, ResolveParent(records, i)) :
                 \/ ImportOrder(records, j) < ImportOrder(records, i)
                 \/ (ImportOrder(records, j) = ImportOrder(records, i) /\ j <= i)})

ImportCounts(records) ==
  [inserted |-> Len(records),
   roots |-> Cardinality(ImportGroup(records, 0)),
   leaves |-> Cardinality({i \in 1..Len(records) : ImportGroup(records, i) = {}})]

\* The body of the response to POST /sections/import.
ImportResponse(res, records) ==
  IF res.ok THEN [ok |-> TRUE] @@ ImportCounts(records) ELSE [ok |-> FALSE]

\* (5), (6) the table after the import.  Record i becomes node firstId + i - 1.
\* replace: the batch replaces the tree; otherwise its roots follow the
\* existing roots (the design leaves the policy open: both are modelled).
ImportedStore(st, records, replace, firstId) ==
  LET base == IF replace THEN EmptyStore ELSE st
      offset == Cardinality(GroupIds(base, Null))
      idOf(i) == firstId + i - 1
      new == {idOf(i) : i \in 1..Len(records)}
  IN [n \in (DOMAIN base) \cup new |->
        IF n \in new
        THEN LET i == n - firstId + 1
                 p == ResolveParent(records, i)
             IN Row(IF p = 0 THEN Null ELSE idOf(p),
                    records[i].name,
                    ImportRank(records, i) + (IF p = 0 THEN offset ELSE 0))
        ELSE base[n]]

ImportOp(st, records, replace, firstId) ==
  IF HasDuplicateKey(records) \/ HasCycle(records) THEN {Fail("ValidationError", st)}
  ELSE Transact(st, ImportedStore(st, records, replace, firstId))

\* --------------------------------------------------------- Tree Assembler
\* The nested response of GET /sections: SectionNode[] (types.ts), children
\* by order ascending, roots being the nodes whose parent_id is null.

SectionNode(id, st, children) ==
  [id |-> id, parent_id |-> st[id].parent_id, name |-> st[id].name,
   order |-> st[id].order, children |-> children]

RECURSIVE AssembleGroup(_, _)
AssembleGroup(st, parentId) ==
  LET sibs == getSiblings(st, parentId)
  IN [i \in 1..Len(sibs) |-> SectionNode(sibs[i], st, AssembleGroup(st, sibs[i]))]

Assemble(st) == AssembleGroup(st, Null)

\* ------------------------------------------------------------ the client
\* frontend/src: App's helpers, translated on SectionNode[] lists.

\* Map.prototype.set
MapSet(map, k, v) == [x \in (DOMAIN map) \cup {k} |-> IF x = k THEN v ELSE map[x]]

RECURSIVE metaWalk(_, _)
metaWalk(list, meta) ==
  IF list = <<>> THEN meta
  ELSE LET n == Head(list)
           set == MapSet(meta, n.id, [parentId |-> n.parent_id, order |-> n.order])
       IN metaWalk(Tail(list),
                   IF Len(n.children) > 0 THEN metaWalk(n.children, set) ELSE set)

\* getNodeMeta that does not walk the children.
getNodeMetaShallow(nodes) ==
  [id \in {nodes[i].id : i \in 1..Len(nodes)} |->
     LET n == nodes[CHOOSE i \in 1..Len(nodes) : nodes[i].id = id]
     IN [parentId |-> n.parent_id, order |-> n.order]]

getNodeMeta(nodes) == metaWalk(nodes, [x \in {} |-> 0])

\* normalizeLocalOrders numbering from 0.
normalizeFromZero(list) ==
  [i \in 1..Len(list) |-> [list[i] EXCEPT !.order = i - 1]]

\* normalizeLocalOrders that only clears the orders' gaps: each node gets the
\* number of nodes of the list whose order is not greater.
normalizeByOrder(list) ==
  [i \in 1..Len(list) |->
     [list[i] EXCEPT !.order =
        Cardinality({j \in 1..Len(list) : list[j].order <= list[i].order})]]

normalizeLocalOrders(list) ==
  [i \in 1..Len(list) |-> [list[i] EXCEPT !.order = (i - 1) + 1]]

\* insertAt without the shift the removal causes.
insertAtUnshifted(from, to, position) ==
  IF position = "before" THEN to ELSE to + 1

\* insertAt that is the moved node's old slot.
insertAtOldSlot(from, to, position) == from

\* The slot the moved node is re-inserted at (0-based, after its removal).
insertAt(from, to, position) ==
  IF from < to
  THEN (IF position = "before" THEN to - 1 ELSE to)
  ELSE (IF position = "before" THEN to ELSE to + 1)

\* walk of reorderTreeLocally: [list, changed].
RECURSIVE reorderWalk(_, _, _, _)
reorderWalk(list, sectionId, targetId, position) ==
  LET from == findIndex(list, sectionId)
      to == findIndex(list, targetId)
  IN IF from # -1 /\ to # -1
     THEN LET moved == list[from + 1]
              next == spliceIn(spliceOut(list, from), insertAt(from, to, position), moved)
          IN [list |-> normalizeLocalOrders(next), changed |-> TRUE]
     ELSE LET result == [i \in 1..Len(list) |->
                           IF Len(list[i].children) = 0
                           THEN [list |-> list[i].children, changed |-> FALSE]
                           ELSE reorderWalk(list[i].children, sectionId, targetId, position)]
              changed == \E i \in 1..Len(list) : result[i].changed
              next == [i \in 1..Len(list) |->
                         IF result[i].changed
                         THEN [list[i] EXCEPT !.children = result[i].list]
                         ELSE list[i]]
          IN [list |-> IF changed THEN next ELSE list, changed |-> changed]

reorderTreeLocally(nodes, sectionId, targetId, position) ==
  reorderWalk(nodes, sectionId, targetId, position).list

\* Every node of a displayed tree (each row the user can act on).
RECURSIVE TreeNodes(_)
TreeNodes(list) ==
  IF list = <<>> THEN {}
  ELSE {Head(list)} \cup TreeNodes(Head(list).children) \cup TreeNodes(Tail(list))

TreeIds(list) == {n.id : n \in TreeNodes(list)}

\* An error message that ignores the detail.
ErrorFallback(detail, fallback) == fallback

\* data.detail || fallback
ErrorMessage(detail, fallback) == IF detail # "" THEN detail ELSE fallback

\* moveDecision without the parent comparison.
moveDecisionAnyParent(nodes, sectionId, targetId) ==
  LET meta == getNodeMeta(nodes)
  IN IF sectionId = targetId THEN [kind |-> "return", position |-> ""]
     ELSE IF sectionId \notin DOMAIN meta \/ targetId \notin DOMAIN meta
          THEN [kind |-> "return", position |-> ""]
     ELSE [kind |-> "request",
           position |-> IF meta[sectionId].order < meta[targetId].order
                        THEN "after" ELSE "before"]

\* moveDecision with the two positions in each other's place.
moveDecisionSwapped(nodes, sectionId, targetId) ==
  LET meta == getNodeMeta(nodes)
  IN IF sectionId = targetId THEN [kind |-> "return", position |-> ""]
     ELSE IF sectionId \notin DOMAIN meta \/ targetId \notin DOMAIN meta
          THEN [kind |-> "return", position |-> ""]
     ELSE IF meta[sectionId].parentId # meta[targetId].parentId
          THEN [kind |-> "error", position |-> ""]
     ELSE [kind |-> "request",
           position |-> IF meta[sectionId].order < meta[targetId].order
                        THEN "before" ELSE "after"]

\* moveDecision without the comparison of the two ids.
moveDecisionSelf(nodes, sectionId, targetId) ==
  LET meta == getNodeMeta(nodes)
  IN IF sectionId \notin DOMAIN meta \/ targetId \notin DOMAIN meta
     THEN [kind |-> "return", position |-> ""]
     ELSE IF meta[sectionId].parentId # meta[targetId].parentId
          THEN [kind |-> "error", position |-> ""]
     ELSE [kind |-> "request",
           position |-> IF meta[sectionId].order < meta[targetId].order
                        THEN "after" ELSE "before"]

\* moveSectionByAnchor up to its request: what the drop of sectionId on
\* targetId does before anything is sent.
\*   "return"  : nothing happens
\*   "error"   : setError, nothing is sent
\*   "request" : the optimistic reorder and PUT /sections/move with position
moveDecision(nodes, sectionId, targetId) ==
  LET meta == getNodeMeta(nodes)
  IN IF sectionId = targetId THEN [kind |-> "return", position |-> ""]
     ELSE IF sectionId \notin DOMAIN meta \/ targetId \notin DOMAIN meta
          THEN [kind |-> "return", position |-> ""]
     ELSE IF meta[sectionId].parentId # meta[targetId].parentId
          THEN [kind |-> "error", position |-> ""]
     ELSE [kind |-> "request",
           position |-> IF meta[sectionId].order < meta[targetId].order
                        THEN "after" ELSE "before"]

\* handleCreateArgs that takes the clicked row for the parent in both modes.
handleCreateUnderRow(node, addMode) ==
  [parentId |-> node.id,
   anchorId |-> IF addMode = "sibling" THEN node.id ELSE Null]

\* handleCreate of SectionRow: the arguments handed to onCreateSection.
handleCreateArgs(node, addMode) ==
  [parentId |-> IF addMode = "child" THEN node.id ELSE node.parent_id,
   anchorId |-> IF addMode = "sibling" THEN node.id ELSE Null]

\* onCreateSection: the body of POST /sections.
createRequest(name, parentId, anchorId, mode) ==
  [name |-> trim(name), parent_id |-> parentId,
   anchor_section_id |-> IF mode = "sibling" THEN anchorId ELSE Null,
   anchor_position |-> "after"]

\* deleteStrategy that lifts the children of a confirmed row.
deleteStrategyLiftConfirmed(node, confirmed) ==
  IF Len(node.children) > 0
  THEN (IF confirmed THEN "lift_children" ELSE "")
  ELSE "lift_children"

\* deleteStrategy without the prompt.
deleteStrategyNoPrompt(node, confirmed) == "lift_children"

\* importInfo with the two counts in each other's place.
importInfoSwapped(result) ==
  <<"Imported", result.inserted, "roots", result.leaves, "leaves", result.roots>>

\* onImportChange: the info message, "Imported <inserted> sections from
\* <source> (<roots> roots, <leaves> leaves)."
importInfo(result) ==
  <<"Imported", result.inserted, "roots", result.roots, "leaves", result.leaves>>

\* handleSave that returns for an empty draft only.
handleSaveUnlessEmpty(node, draft) == trim(draft) = <<>>

\* handleSave of SectionRow: it returns before onRename is called.
handleSaveReturns(node, draft) ==
  trim(draft) = <<>> \/ trim(draft) = node.name

\* onDeleteSection: the strategy for a row, "" when nothing is sent.
deleteStrategy(node, confirmed) ==
  IF Len(node.children) > 0
  THEN (IF confirmed THEN "cascade" ELSE "")
  ELSE "lift_children"

\* GET /sections: the assembled tree, or a failure without detail.
FetchSections(st) ==
  {[ok |-> TRUE, data |-> Assemble(st), detail |-> ""],
   [ok |-> FALSE, data |-> <<>>, detail |-> ""],
   [ok |-> FALSE, data |-> <<>>, detail |-> "StoreError"]}

\* loadSections: [tree, error] after it, from the fetch's outcome.
loadSections(fetched, curTree, curError, silent) ==
  IF fetched.ok
  THEN [tree |-> fetched.data, error |-> IF silent THEN curError ELSE ""]
  ELSE [tree |-> curTree, error |-> ErrorMessage(fetched.detail, "Failed to load sections")]

\* The try/catch of a mutation handler after setError(""): on success the
\* silent reload (over the tree on display), on failure the error message
\* (over failTree: the display the catch block leaves).
afterRequest(response, fetched, shownTree, failTree, fallback) ==
  IF response.ok
  THEN loadSections(fetched, shownTree, "", TRUE)
  ELSE [tree |-> failTree, error |-> ErrorMessage(response.detail, fallback)]

\* ------------------------------------------------------------- the inputs

ImportRecords ==
  {ImportRecord("", <<"a">>, "", 0),
   ImportRecord("k1", <<"a">>, "", 2),
   ImportRecord("k2", <<"b">>, "k1", 0),
   ImportRecord("k1", <<"a">>, "k2", 1),
   ImportRecord("", <<"a">>, "1", 0),
   ImportRecord("k2", <<"a">>, "zz", 1)}

RECURSIVE SeqsUpTo(_, _)
SeqsUpTo(S, n) ==
  IF n = 0 THEN {<<>>}
  ELSE LET shorter == SeqsUpTo(S, n - 1)
       IN shorter \cup {Append(q, x) : q \in shorter, x \in S}

ImportBatches == SeqsUpTo(ImportRecords, MaxBatch) \ {<<>>}

\* --------------------------------------------------------------- the state

VARIABLES
  store,    \* the persisted node table
  nextId,   \* the next identifier the store assigns
  tree,     \* App's tree: the SectionNode[] on display
  error,    \* App's error
  stale,    \* committed mutations since the display's last fetch
  last,     \* the operation that ran last: by whom, which, the user's input
            \* (args), the request that reached the server (sent, at most
            \* one), its outcome, the table, the next id and the display
            \* before it, and the tree on display while the request ran
  inflight, \* the transactions of the store that have begun, by number
  moves,    \* the calls of moveSectionByAnchor that sent a request, in the
            \* order they began: how far each is, its request, the tree it
            \* kept as previousTree and the response it awaits or got
  activeId,    \* App's activeId: the row being dragged
  overId,      \* App's overId: the row the drag is over
  renamingId,  \* App's renamingId
  creatingId,  \* App's creatingId
  deletingId,  \* App's deletingId
  calls     \* the calls of renameSection, onCreateSection and onDeleteSection
            \* that sent a request, in the order they began

drag == <<activeId, overId>>
busy == <<renamingId, creatingId, deletingId, calls>>

vars == <<store, nextId, tree, error, stale, last, inflight, moves,
         activeId, overId, renamingId, creatingId, deletingId, calls>>

NoResult == [ok |-> TRUE, err |-> ""]

\* The response to a request of the client: the status and the detail of
\* its body.  An internal error may come without a detail.
Response(res, detail) == [ok |-> res.ok, detail |-> detail]

ResponseDetails(res) ==
  IF res.ok THEN {""}
  ELSE IF res.err = "StoreError" THEN {"", res.err}
  ELSE {res.err}

\* The fetch of a handler in the log: whether it ran, and its response.
NoFetch == [ran |-> FALSE, ok |-> TRUE, detail |-> ""]

Fetched(fetched) == [ran |-> TRUE, ok |-> fetched.ok, detail |-> fetched.detail]

\* The log between two operations.
NoOp ==
  [by |-> "", op |-> "none", args |-> <<>>, sent |-> <<>>, ok |-> TRUE, err |-> "",
   pre |-> EmptyStore, preNextId |-> 0, preTree |-> <<>>, preError |-> "",
   shown |-> <<>>, detail |-> "", fetch |-> NoFetch]

Idle == last.op = "none"

Done(by, op, args, sent, res, shown) ==
  [by |-> by, op |-> op, args |-> args, sent |-> sent,
   ok |-> res.ok, err |-> res.err,
   pre |-> store, preNextId |-> nextId, preTree |-> tree, preError |-> error,
   shown |-> shown, detail |-> res.err, fetch |-> NoFetch]

\* The log of a handler that got `detail` with its response and, on
\* success, fetched the tree.
Answered(detail, res, fetched, log) ==
  [log EXCEPT !.detail = detail,
              !.fetch = IF res.ok THEN Fetched(fetched) ELSE NoFetch]

Init ==
  /\ store = EmptyStore
  /\ nextId = 1
  /\ tree = <<>>
  /\ error = ""
  /\ stale = 0
  /\ last = NoOp
  /\ inflight = <<>>
  /\ moves = <<>>
  /\ activeId = Null /\ overId = Null
  /\ renamingId = Null /\ creatingId = Null /\ deletingId = Null
  /\ calls = <<>>

\* ---------------------------------------------- requests of any API caller
\* The HTTP surface with arbitrary arguments; the display is not refreshed.

\* The ids a request may name: the existing ones and some that do not exist.
ArgIds == Ids \cup DOMAIN store

ByApi(res) ==
  /\ stale < MaxStale
  /\ store' = res.store
  /\ stale' = IF res.ok THEN stale + 1 ELSE stale
  /\ UNCHANGED <<tree, error, inflight, moves, drag, busy>>

ApiCreate ==
  /\ Idle
  /\ \E name \in NameInputs, parentId \in ArgIds \cup {Null}, anchorId \in ArgIds \cup {Null},
        position \in Positions :
       LET sent == [kind |-> "create", name |-> name, parent_id |-> parentId,
                    anchor_section_id |-> anchorId, anchor_position |-> position]
       IN /\ nextId <= MaxId
          /\ \E res \in CreateOp(store, nextId, name, parentId, anchorId, position) :
               /\ ByApi(res)
               /\ nextId' = IF res.ok THEN nextId + 1 ELSE nextId
               /\ last' = Done("api", "create", <<>>, <<sent>>, res, tree)

ApiRename ==
  /\ Idle
  /\ \E id \in ArgIds, name \in NameInputs :
       LET sent == [kind |-> "rename", id |-> id, name |-> name]
       IN \E res \in RenameOp(store, id, name) :
            /\ ByApi(res)
            /\ last' = Done("api", "rename", <<>>, <<sent>>, res, tree)
            /\ UNCHANGED nextId

ApiDelete ==
  /\ Idle
  /\ \E id \in ArgIds, strategy \in Strategies :
       LET sent == [kind |-> "delete", id |-> id, strategy |-> strategy]
       IN \E res \in DeleteOp(store, id, strategy) :
            /\ ByApi(res)
            /\ last' = Done("api", "delete", <<>>, <<sent>>, res, tree)
            /\ UNCHANGED nextId

ApiMove ==
  /\ Idle
  /\ \E sectionId \in ArgIds, targetSectionId \in ArgIds, position \in Positions :
       LET sent == [kind |-> "move", section_id |-> sectionId,
                    target_section_id |-> targetSectionId, position |-> position]
       IN \E res \in MoveOp(store, sectionId, targetSectionId, position) :
            /\ ByApi(res)
            /\ last' = Done("api", "move", <<>>, <<sent>>, res, tree)
            /\ UNCHANGED nextId

ApiImport ==
  /\ Idle
  /\ \E records \in ImportBatches, replace \in BOOLEAN :
       LET sent == [kind |-> "import", records |-> records]
       IN /\ nextId + Len(records) - 1 <= MaxId
          /\ \E res \in ImportOp(store, records, replace, nextId) :
               /\ ByApi(res)
               /\ nextId' = IF res.ok THEN nextId + Len(records) ELSE nextId
               /\ last' = Done("api", "import",
                               [replace |-> replace, response |-> ImportResponse(res, records)],
                               <<sent>>, res, tree)

\* ------------------------------------------------------ the user's actions
\* Each handler of App runs to its end: the request it sends is served, and
\* on success the tree is fetched again.

\* The display and the staleness after a handler whose outcome is `after`.
Shown(after, fetched, res, mutation) ==
  /\ fetched.ok \/ stale < MaxStale
  /\ tree' = after.tree
  /\ error' = after.error
  /\ stale' = IF ~res.ok THEN stale
              ELSE IF fetched.ok THEN 0
              ELSE IF mutation THEN stale + 1 ELSE stale
  /\ UNCHANGED <<inflight, moves, busy>>

\* A handler that returns before it sends anything.
Returned(op, args) ==
  /\ UNCHANGED <<store, nextId, tree, error, stale, inflight, moves, busy>>
  /\ last' = Done("ui", op, args, <<>>, NoResult, tree)

\* onDragEnd(active, over): moveSectionByAnchor unless dropped outside a row.
UIDragEnd ==
  /\ Idle
  /\ \E active \in TreeIds(tree), over \in TreeIds(tree) \cup {Null} :
    LET args == [sectionId |-> active, targetId |-> over]
        d == IF over = Null THEN [kind |-> "return", position |-> ""]
             ELSE moveDecision(tree, active, over)
    IN \/ /\ over = Null
          /\ Returned("drop", args)
          /\ activeId' = Null /\ overId' = Null
       \/ /\ over # Null /\ d.kind = "return"
          /\ Returned("drop", args)
          /\ UNCHANGED drag
       \/ /\ d.kind = "error"
          /\ error' = "Cross-parent moves are not allowed."
          /\ UNCHANGED <<store, nextId, tree, stale, inflight, moves, drag, busy>>
          /\ last' = Done("ui", "drop", args, <<>>, NoResult, tree)
       \/ /\ d.kind = "request"
          /\ LET shown == reorderTreeLocally(tree, active, over, d.position)
                 sent == [kind |-> "move", section_id |-> active,
                          target_section_id |-> over, position |-> d.position]
             IN \E res \in MoveOp(store, active, over, d.position) :
                  \E fetched \in FetchSections(res.store), detail \in ResponseDetails(res) :
                    /\ store' = res.store
                    /\ Shown(afterRequest(Response(res, detail), fetched, shown, tree, "Move failed"),
                             fetched, res, TRUE)
                    /\ last' = Answered(detail, res, fetched, Done("ui", "drop", args, <<sent>>, res, shown))
          /\ activeId' = Null /\ overId' = Null
          /\ UNCHANGED nextId

\* handleCreate of a row, then onCreateSection.
UICreate ==
  /\ Idle
  /\ UNCHANGED drag
  /\ \E node \in TreeNodes(tree), addMode \in {"sibling", "child"}, draft \in DraftInputs :
    LET args == [node |-> node, addMode |-> addMode, draft |-> draft]
        h == handleCreateArgs(node, addMode)
        sent == [kind |-> "create"] @@ createRequest(trim(draft), h.parentId, h.anchorId, addMode)
    IN /\ nextId <= MaxId
       /\ \/ /\ trim(draft) = <<>>
             /\ Returned("create", args)
          \/ /\ trim(draft) # <<>>
             /\ \E res \in CreateOp(store, nextId, sent.name, sent.parent_id,
                                    sent.anchor_section_id, sent.anchor_position) :
                  \E fetched \in FetchSections(res.store), detail \in ResponseDetails(res) :
                    /\ store' = res.store
                    /\ nextId' = IF res.ok THEN nextId + 1 ELSE nextId
                    /\ Shown(afterRequest(Response(res, detail), fetched, tree, tree, "Create failed"),
                             fetched, res, TRUE)
                    /\ last' = Answered(detail, res, fetched, Done("ui", "create", args, <<sent>>, res, tree))

\* onDeleteSection(node); confirmed is the user's answer to the prompt.
UIDelete ==
  /\ Idle
  /\ UNCHANGED drag
  /\ \E node \in TreeNodes(tree), confirmed \in BOOLEAN :
    LET args == [node |-> node, confirmed |-> confirmed]
        strategy == deleteStrategy(node, confirmed)
        sent == [kind |-> "delete", id |-> node.id, strategy |-> strategy]
    IN \/ /\ strategy = ""
          /\ Returned("delete", args)
       \/ /\ strategy # ""
          /\ \E res \in DeleteOp(store, node.id, strategy) :
               \E fetched \in FetchSections(res.store), detail \in ResponseDetails(res) :
                 /\ store' = res.store
                 /\ Shown(afterRequest(Response(res, detail), fetched, tree, tree, "Delete failed"),
                          fetched, res, TRUE)
                 /\ last' = Answered(detail, res, fetched, Done("ui", "delete", args, <<sent>>, res, tree))
          /\ UNCHANGED nextId

\* handleSave of a row, then renameSection.
UIRename ==
  /\ Idle
  /\ UNCHANGED drag
  /\ \E node \in TreeNodes(tree), draft \in DraftInputs :
    LET args == [node |-> node, draft |-> draft]
        trimmed == trim(draft)
        sent == [kind |-> "rename", id |-> node.id, name |-> trimmed]
    IN \/ /\ handleSaveReturns(node, draft)
          /\ Returned("rename", args)
       \/ /\ ~handleSaveReturns(node, draft)
          /\ \E res \in RenameOp(store, node.id, trimmed) :
               \E fetched \in FetchSections(res.store), detail \in ResponseDetails(res) :
                 /\ store' = res.store
                 /\ Shown(afterRequest(Response(res, detail), fetched, tree, tree, "Rename failed"),
                          fetched, res, TRUE)
                 /\ last' = Answered(detail, res, fetched, Done("ui", "rename", args, <<sent>>, res, tree))
          /\ UNCHANGED nextId

\* onImportChange with a chosen file.
UIImport ==
  /\ Idle
  /\ UNCHANGED drag
  /\ \E records \in ImportBatches, replace \in BOOLEAN :
    LET sent == [kind |-> "import", records |-> records]
    IN /\ nextId + Len(records) - 1 <= MaxId
       /\ \E res \in ImportOp(store, records, replace, nextId) :
            \E fetched \in FetchSections(res.store), detail \in ResponseDetails(res) :
              /\ store' = res.store
              /\ nextId' = IF res.ok THEN nextId + Len(records) ELSE nextId
              /\ Shown(afterRequest(Response(res, detail), fetched, tree, tree, "Import failed"),
                       fetched, res, TRUE)
              /\ last' = Answered(detail, res, fetched, Done("ui", "import",
                              [replace |-> replace,
                               response |-> ImportResponse(res, records),
                               info |-> IF res.ok
                                        THEN importInfo(ImportResponse(res, records))
                                        ELSE <<>>],
                              <<sent>>, res, tree))

\* The Reload button (and the load on mount): loadSections().
UIReload ==
  /\ Idle
  /\ UNCHANGED drag
  /\ \E fetched \in FetchSections(store) :
    /\ Shown(loadSections(fetched, tree, error, FALSE), fetched, NoResult, FALSE)
    /\ last' = [Done("ui", "reload", <<>>, <<[kind |-> "fetch"]>>, NoResult, tree)
                   EXCEPT !.fetch = Fetched(fetched)]
    /\ UNCHANGED <<store, nextId>>

\* The log of an operation is kept for one state: the operations do not
\* read it, and clearing it keeps one copy of each state of the program.
Observed ==
  /\ ~Idle
  /\ last' = NoOp
  /\ UNCHANGED <<store, nextId, tree, error, stale, inflight, moves, drag, busy>>

Next ==
  \/ Observed
  \/ ApiCreate
  \/ ApiRename
  \/ ApiDelete
  \/ ApiMove
  \/ ApiImport
  \/ UIDragEnd
  \/ UICreate
  \/ UIDelete
  \/ UIRename
  \/ UIImport
  \/ UIReload

Spec == Init /\ [][Next]_vars

\* ------------------------------------------- single operations on outlines
\* Every outline of up to MaxNodes nodes (ids 1..n in any arrangement), and
\* the outline of the design document's examples, each with the display in
\* step; one operation is applied to it.

\* The node's ancestors-or-self in a parent vector (0: the root group).
RECURSIVE PathUp(_, _)
PathUp(pv, k) == IF k = 0 THEN {0} ELSE {k} \cup PathUp(pv, pv[k])

\* Parent vectors of the outlines of n nodes numbered in document order.
RECURSIVE PreorderForests(_)
PreorderForests(n) ==
  IF n = 0 THEN {<<>>}
  ELSE {Append(pv, p) : pv \in PreorderForests(n - 1), p \in {0}} \cup
       UNION {{Append(pv, p) : p \in PathUp(pv, n - 1)} : pv \in PreorderForests(n - 1)}

Relabelings(n) == {f \in [1..n -> 1..n] : \A i, j \in 1..n : f[i] = f[j] => i = j}

\* The table of the outline pv with node k stored under id f[k].
StoreOf(pv, f) ==
  LET n == Len(pv)
      node(id) == CHOOSE k \in 1..n : f[k] = id
  IN [id \in 1..n |->
        LET k == node(id)
        IN Row(IF pv[k] = 0 THEN Null ELSE f[pv[k]],
               <<"a">>,
               Cardinality({j \in 1..k : pv[j] = pv[k]}))]

\* P with children A, B, C and B with children X, Y (ids 1..6 in that order).
ExampleStore == StoreOf(<<0, 1, 1, 1, 3, 3>>, [k \in 1..6 |-> k])

SampleStores ==
  {ExampleStore} \cup
  UNION {{StoreOf(pv, f) : pv \in PreorderForests(n), f \in Relabelings(n)} :
           n \in 0..MaxNodes}

InitOps ==
  /\ store \in SampleStores
  /\ nextId = Cardinality(DOMAIN store) + 1
  /\ tree = Assemble(store)
  /\ error = ""
  /\ stale = 0
  /\ last = NoOp
  /\ inflight = <<>>
  /\ moves = <<>>
  /\ activeId = Null /\ overId = Null
  /\ renamingId = Null /\ creatingId = Null /\ deletingId = Null
  /\ calls = <<>>

NextOps ==
  \/ ApiRename
  \/ ApiDelete
  \/ ApiMove
  \/ UIDragEnd
  \/ UIDelete
  \/ UIRename
  \/ UIReload

SpecOps == InitOps /\ [][NextOps]_vars

\* ------------------------------------------------ concurrent transactions
\* Requests that overlap in time.  Each mutation opens a transaction on the
\* table it reads, writes its rows one at a time into a working copy and
\* commits them together; the store locks the sibling groups a transaction
\* touches; a fetch reads what is committed.

MaxTx == 2

\* The isolation the store gives a reader: read committed.
DirtyRead(committed, working) == working

ReadCommitted(committed, working) == committed

\* The sibling groups a transaction from pre to post touches: the groups of
\* the rows it writes or removes, and the groups under the nodes it removes.
LockedGroups(pre, post) ==
  LET W == ChangedIds(pre, post)
  IN {pre[i].parent_id : i \in W \cap DOMAIN pre}
       \cup {post[i].parent_id : i \in W \cap DOMAIN post}
       \cup (W \ DOMAIN post)

\* A store that locks nothing.
NeverBlocked(held, wanted) == FALSE

\* The lock on the parent: a group is held by one transaction at a time.
Blocked(held, wanted) == held \cap wanted # {}

Open == {t \in DOMAIN inflight : inflight[t].phase = "open"}

HeldBy(t) == LockedGroups(inflight[t].pre, inflight[t].post)

\* The first k rows (ascending id) of the transaction's writes.
WrittenIds(pre, post, k) ==
  {i \in ChangedIds(pre, post) :
     Cardinality({j \in ChangedIds(pre, post) : j < i}) < k}

\* The table with transaction t's first k writes in it.
Working(t, k) ==
  WithWrites(store, inflight[t].post,
             WrittenIds(inflight[t].pre, inflight[t].post, k))

\* The identifier the store gives the node transaction t creates.
TxNewId(t) == Cardinality(DOMAIN ExampleStore) + t

\* The tables a mutation of st by transaction t may aim at.
TxTargets(st, t) ==
  LET ids == DOMAIN st
      results ==
        UNION {MoveOp(st, a, b, pos) : a \in ids, b \in ids, pos \in Positions}
        \cup UNION {DeleteOp(st, a, strategy) : a \in ids, strategy \in Strategies}
        \cup UNION {RenameOp(st, a, <<"b">>) : a \in ids}
        \cup UNION {CreateOp(st, TxNewId(t), <<"b">>, parent, Null, "after") :
                      parent \in ids \cup {Null}}
        \cup UNION {CreateOp(st, TxNewId(t), <<"b">>, st[a].parent_id, a, pos) :
                      a \in ids, pos \in Positions}
  IN {r.store : r \in {x \in results : x.ok /\ x.store # st}}

Logged(by, op) == [NoOp EXCEPT !.by = by, !.op = op]

TxBegin ==
  \E t \in (1..MaxTx) \ DOMAIN inflight :
    \E post \in TxTargets(store, t) :
      /\ \A u \in Open : ~Blocked(HeldBy(u), LockedGroups(store, post))
      /\ inflight' = [u \in (DOMAIN inflight) \cup {t} |->
                        IF u = t
                        THEN [phase |-> "open", pre |-> store, post |-> post, written |-> 0]
                        ELSE inflight[u]]
      /\ last' = Logged("tx", "begin")
      /\ UNCHANGED <<store, nextId, tree, error, stale, moves, drag, busy>>

TxWrite ==
  \E t \in Open :
    /\ inflight[t].written < Cardinality(ChangedIds(inflight[t].pre, inflight[t].post))
    /\ inflight' = [inflight EXCEPT ![t].written = @ + 1]
    /\ last' = Logged("tx", "write")
    /\ UNCHANGED <<store, nextId, tree, error, stale, moves, drag, busy>>

TxCommit ==
  \E t \in Open :
    /\ inflight[t].written = Cardinality(ChangedIds(inflight[t].pre, inflight[t].post))
    /\ store' = Working(t, inflight[t].written)
    /\ inflight' = [inflight EXCEPT ![t].phase = "committed"]
    /\ last' = Logged("tx", "commit")
    /\ UNCHANGED <<nextId, tree, error, stale, moves, drag, busy>>

\* The store fails; the working copy is dropped.
TxAbort ==
  \E t \in Open :
    /\ store' = Rollback(store, Working(t, inflight[t].written))
    /\ inflight' = [inflight EXCEPT ![t].phase = "aborted"]
    /\ last' = Logged("tx", "abort")
    /\ UNCHANGED <<nextId, tree, error, stale, moves, drag, busy>>

\* loadSections() while transactions are open.
TxFetch ==
  \E working \in {store} \cup {Working(t, inflight[t].written) : t \in Open} :
    \E fetched \in FetchSections(ReadCommitted(store, working)) :
      LET after == loadSections(fetched, tree, error, FALSE)
      IN /\ tree' = after.tree
         /\ error' = after.error
         /\ last' = [Logged("ui", "fetch") EXCEPT !.ok = fetched.ok]
         /\ UNCHANGED <<store, nextId, stale, inflight, moves, drag, busy>>

TxStores ==
  {ExampleStore} \cup
  UNION {{StoreOf(pv, [k \in 1..n |-> k]) : pv \in PreorderForests(n)} : n \in 0..(MaxNodes - 1)}

InitTx ==
  /\ store \in TxStores
  /\ nextId = Cardinality(DOMAIN store) + 1
  /\ tree = Assemble(store)
  /\ error = ""
  /\ stale = 0
  /\ last = NoOp
  /\ inflight = <<>>
  /\ moves = <<>>
  /\ activeId = Null /\ overId = Null
  /\ renamingId = Null /\ creatingId = Null /\ deletingId = Null
  /\ calls = <<>>

NextTx ==
  \/ TxBegin
  \/ TxWrite
  \/ TxCommit
  \/ TxAbort
  \/ TxFetch

SpecTx == InitTx /\ [][NextTx]_vars

\* ------------------------------------------------- moves that overlap
\* moveSectionByAnchor step by step: the handler shows the local reorder
\* and sends the request, the server answers later, and the handler goes
\* on when the answer arrives.  Nothing in App waits for a move: further
\* drops and the other handlers run while it is in flight.

MaxFlight == 2

\* A call that has ended.
EndedMove ==
  [stage |-> "ended", sectionId |-> Null, targetId |-> Null, position |-> "",
   previousTree |-> <<>>, beganOn |-> EmptyStore,
   response |-> Response(NoResult, ""), fetched |-> NoFetch, data |-> <<>>]

InFlight == {i \in DOMAIN moves : moves[i].stage # "ended"}

\* A drop up to `await moveSectionRequest(...)`.
MoveBegin ==
  /\ Len(moves) < MaxFlight
  /\ \E active \in TreeIds(tree), over \in TreeIds(tree) :
       LET d == moveDecision(tree, active, over)
       IN \/ /\ d.kind = "error"
             /\ error' = "Cross-parent moves are not allowed."
             /\ UNCHANGED <<tree, moves>>
          \/ /\ d.kind = "request"
             /\ tree' = reorderTreeLocally(tree, active, over, d.position)
             /\ error' = ""
             /\ moves' = Append(moves,
                  [EndedMove EXCEPT !.stage = "request", !.sectionId = active,
                                    !.targetId = over, !.position = d.position,
                                    !.previousTree = tree, !.beganOn = store])
  /\ UNCHANGED <<store, nextId, stale, last, inflight, drag, busy>>

\* The server runs the Move of a call and answers.
MoveServed ==
  \E i \in InFlight :
    /\ moves[i].stage = "request"
    /\ \E res \in MoveOp(store, moves[i].sectionId, moves[i].targetId, moves[i].position) :
         \E detail \in ResponseDetails(res) :
           /\ store' = res.store
           /\ stale' = IF res.ok THEN stale + 1 ELSE stale
           /\ moves' = [moves EXCEPT ![i].stage = "response",
                                     ![i].response = Response(res, detail)]
    /\ UNCHANGED <<nextId, tree, error, last, inflight, drag, busy>>

\* The answer reaches the handler: on success it goes on to the silent
\* loadSections, on failure the catch block puts previousTree back.
MoveAnswered ==
  \E i \in InFlight :
    LET m == moves[i]
        sent == [kind |-> "move", section_id |-> m.sectionId,
                 target_section_id |-> m.targetId, position |-> m.position]
        after == afterRequest(m.response, [ok |-> TRUE, data |-> tree, detail |-> ""],
                              tree, m.previousTree, "Move failed")
    IN /\ m.stage = "response"
       /\ \/ /\ m.response.ok
             /\ moves' = [moves EXCEPT ![i].stage = "fetch"]
             /\ UNCHANGED <<tree, error, last>>
          \/ /\ ~m.response.ok
             /\ tree' = after.tree
             /\ error' = after.error
             /\ moves' = [moves EXCEPT ![i] = EndedMove]
             /\ last' = [Logged("ui", "drop") EXCEPT
                           !.args = [sectionId |-> m.sectionId, targetId |-> m.targetId],
                           !.sent = <<sent>>, !.ok = FALSE, !.detail = m.response.detail,
                           !.pre = m.beganOn, !.preTree = m.previousTree, !.shown = tree]
       /\ UNCHANGED <<store, nextId, stale, inflight, drag, busy>>

\* The server answers the fetch of a call.
FetchServed ==
  \E i \in InFlight :
    /\ moves[i].stage = "fetch"
    /\ \E fetched \in FetchSections(store) :
         moves' = [moves EXCEPT ![i].stage = "fetched",
                                ![i].fetched = Fetched(fetched),
                                ![i].data = fetched.data]
    /\ UNCHANGED <<store, nextId, tree, error, stale, last, inflight, drag, busy>>

\* The fetched tree reaches loadSections({ silent: true }); the call ends.
FetchAnswered ==
  \E i \in InFlight :
    LET m == moves[i]
        after == loadSections([ok |-> m.fetched.ok, data |-> m.data,
                               detail |-> m.fetched.detail], tree, error, TRUE)
    IN /\ m.stage = "fetched"
       /\ tree' = after.tree
       /\ error' = after.error
       /\ stale' = IF m.fetched.ok /\ m.data = Assemble(store) THEN 0 ELSE stale
       /\ moves' = [moves EXCEPT ![i] = EndedMove]
       /\ UNCHANGED <<store, nextId, last, inflight, drag, busy>>

\* The other handlers, each run to its end while a move is in flight.  The
\* log is cleared when nothing is in flight, so at most one of them runs
\* during the moves that overlap.
DuringRename == InFlight # {} /\ UIRename
DuringCreate == InFlight # {} /\ UICreate
DuringDelete == InFlight # {} /\ UIDelete
DuringImport == InFlight # {} /\ UIImport
DuringReload == InFlight # {} /\ UIReload
ObservedAtRest == InFlight = {} /\ Observed

\* The outlines of one or two nodes, with the ids in sequence.
FlightStores ==
  UNION {{StoreOf(pv, [k \in 1..n |-> k]) : pv \in PreorderForests(n)} : n \in 1..(MaxNodes - 2)}

InitFlight ==
  /\ store \in FlightStores
  /\ nextId = Cardinality(DOMAIN store) + 1
  /\ tree = Assemble(store)
  /\ error = ""
  /\ stale = 0
  /\ last = NoOp
  /\ inflight = <<>>
  /\ moves = <<>>
  /\ activeId = Null /\ overId = Null
  /\ renamingId = Null /\ creatingId = Null /\ deletingId = Null
  /\ calls = <<>>

NextFlight ==
  \/ MoveBegin
  \/ MoveServed
  \/ MoveAnswered
  \/ FetchServed
  \/ FetchAnswered
  \/ DuringRename
  \/ DuringCreate
  \/ DuringDelete
  \/ DuringImport
  \/ DuringReload
  \/ ObservedAtRest

SpecFlight == InitFlight /\ [][NextFlight]_vars

\* --------------------------------------------------------------- drags
\* A drag from its start to its end: the DndContext calls onDragStart,
\* onDragOver while the pointer moves, and onDragEnd or onDragCancel.

onDragStart ==
  /\ Idle
  /\ \E id \in TreeIds(tree) : activeId' = id
  /\ UNCHANGED <<store, nextId, tree, error, stale, last, inflight, moves, overId, busy>>

onDragOver ==
  /\ Idle
  /\ activeId # Null
  /\ \E over \in TreeIds(tree) \cup {Null} : overId' = over
  /\ UNCHANGED <<store, nextId, tree, error, stale, last, inflight, moves, activeId, busy>>

onDragCancel ==
  /\ Idle
  /\ activeId # Null
  /\ activeId' = Null /\ overId' = Null
  /\ last' = Done("ui", "cancel", [sectionId |-> activeId], <<>>, NoResult, tree)
  /\ UNCHANGED <<store, nextId, tree, error, stale, inflight, moves, busy>>

\* onDragEnd for the row being dragged.
onDragEnd ==
  /\ activeId # Null
  /\ UIDragEnd
  /\ last'.args.sectionId = activeId

InitDrag ==
  /\ store \in TxStores
  /\ nextId = Cardinality(DOMAIN store) + 1
  /\ tree = Assemble(store)
  /\ error = ""
  /\ stale = 0
  /\ last = NoOp
  /\ inflight = <<>>
  /\ moves = <<>>
  /\ activeId = Null /\ overId = Null
  /\ renamingId = Null /\ creatingId = Null /\ deletingId = Null
  /\ calls = <<>>

NextDrag ==
  \/ onDragStart
  \/ onDragOver
  \/ onDragCancel
  \/ onDragEnd
  \/ Observed

SpecDrag == InitDrag /\ [][NextDrag]_vars

\* ------------------------------------------------------ calls that overlap
\* renameSection, onCreateSection and onDeleteSection step by step: the
\* handler sets its flag and sends the request, the server answers later,
\* the handler reloads on success, and its finally block clears the flag.
\* A row's controls are disabled only while the flag names that row.

MaxCalls == 2

\* A call that has ended.
EndedCall ==
  [stage |-> "ended", kind |-> "", node |-> Null, sent |-> <<>>,
   response |-> Response(NoResult, ""), fetched |-> NoFetch, data |-> <<>>]

InCall == {i \in DOMAIN calls : calls[i].stage # "ended"}

Began(kind, node, sent) ==
  Append(calls, [EndedCall EXCEPT !.stage = "request", !.kind = kind,
                                  !.node = node, !.sent = sent])

\* The finally block of a handler of the kind.
FlagCleared(kind) ==
  /\ renamingId' = IF kind = "rename" THEN Null ELSE renamingId
  /\ creatingId' = IF kind = "create" THEN Null ELSE creatingId
  /\ deletingId' = IF kind = "delete" THEN Null ELSE deletingId

\* handleSave of a row, then renameSection up to its first await.
RenameBegin ==
  /\ Len(calls) < MaxCalls
  /\ \E node \in TreeNodes(tree), draft \in DraftInputs :
       /\ ~handleSaveReturns(node, draft)
       /\ renamingId # node.id
       /\ renamingId' = node.id
       /\ calls' = Began("rename", node.id,
                         [kind |-> "rename", id |-> node.id, name |-> trim(draft)])
  /\ error' = ""
  /\ UNCHANGED <<store, nextId, tree, stale, last, inflight, moves, drag, creatingId, deletingId>>

\* handleCreate of a row, then onCreateSection up to its first await.
CreateBegin ==
  /\ Len(calls) < MaxCalls
  /\ \E node \in TreeNodes(tree), addMode \in {"sibling", "child"}, draft \in DraftInputs :
       LET h == handleCreateArgs(node, addMode)
       IN /\ trim(draft) # <<>>
          /\ creatingId # node.id
          /\ creatingId' = IF h.anchorId # Null THEN h.anchorId ELSE creatingId
          /\ calls' = Began("create", node.id,
                            [kind |-> "create"] @@
                              createRequest(trim(draft), h.parentId, h.anchorId, addMode))
  /\ error' = ""
  /\ UNCHANGED <<store, nextId, tree, stale, last, inflight, moves, drag, renamingId, deletingId>>

\* onDeleteSection of a row up to its first await (after the prompt, if any).
DeleteBegin ==
  /\ Len(calls) < MaxCalls
  /\ \E node \in TreeNodes(tree), confirmed \in BOOLEAN :
       /\ deleteStrategy(node, confirmed) # ""
       /\ deletingId # node.id
       /\ deletingId' = node.id
       /\ calls' = Began("delete", node.id,
                         [kind |-> "delete", id |-> node.id,
                          strategy |-> deleteStrategy(node, confirmed)])
  /\ error' = ""
  /\ UNCHANGED <<store, nextId, tree, stale, last, inflight, moves, drag, renamingId, creatingId>>

\* What the server does with the request of a call.
Served(sent) ==
  IF sent.kind = "rename" THEN RenameOp(store, sent.id, sent.name)
  ELSE IF sent.kind = "create"
       THEN CreateOp(store, nextId, sent.name, sent.parent_id,
                     sent.anchor_section_id, sent.anchor_position)
  ELSE DeleteOp(store, sent.id, sent.strategy)

CallServed ==
  \E i \in InCall :
    /\ calls[i].stage = "request"
    /\ calls[i].kind = "create" => nextId <= MaxId
    /\ \E res \in Served(calls[i].sent) :
         \E detail \in ResponseDetails(res) :
           /\ store' = res.store
           /\ nextId' = IF calls[i].kind = "create" /\ res.ok THEN nextId + 1 ELSE nextId
           /\ stale' = IF res.ok THEN stale + 1 ELSE stale
           /\ calls' = [calls EXCEPT ![i].stage = "response",
                                     ![i].response = Response(res, detail)]
    /\ UNCHANGED <<tree, error, last, inflight, moves, drag, renamingId, creatingId, deletingId>>

\* The answer reaches the handler: on success it goes on to the silent
\* loadSections, on failure to the catch and finally blocks.
CallAnswered ==
  \E i \in InCall :
    LET c == calls[i]
        fallback == IF c.kind = "rename" THEN "Rename failed"
                    ELSE IF c.kind = "create" THEN "Create failed" ELSE "Delete failed"
        after == afterRequest(c.response, [ok |-> TRUE, data |-> tree, detail |-> ""],
                              tree, tree, fallback)
    IN /\ c.stage = "response"
       /\ \/ /\ c.response.ok
             /\ calls' = [calls EXCEPT ![i].stage = "fetch"]
             /\ UNCHANGED <<error, renamingId, creatingId, deletingId>>
          \/ /\ ~c.response.ok
             /\ error' = after.error
             /\ FlagCleared(c.kind)
             /\ calls' = [calls EXCEPT ![i] = EndedCall]
       /\ UNCHANGED <<store, nextId, tree, stale, last, inflight, moves, drag>>

\* The server answers the fetch of a call.
CallFetchServed ==
  \E i \in InCall :
    /\ calls[i].stage = "fetch"
    /\ \E fetched \in FetchSections(store) :
         calls' = [calls EXCEPT ![i].stage = "fetched",
                                ![i].fetched = Fetched(fetched),
                                ![i].data = fetched.data]
    /\ UNCHANGED <<store, nextId, tree, error, stale, last, inflight, moves, drag,
                   renamingId, creatingId, deletingId>>

\* The fetched tree reaches loadSections({ silent: true }); the finally
\* block runs and the call ends.
CallFetchAnswered ==
  \E i \in InCall :
    LET c == calls[i]
        after == loadSections([ok |-> c.fetched.ok, data |-> c.data,
                               detail |-> c.fetched.detail], tree, error, TRUE)
    IN /\ c.stage = "fetched"
       /\ tree' = after.tree
       /\ error' = after.error
       /\ stale' = IF c.fetched.ok /\ c.data = Assemble(store) THEN 0 ELSE stale
       /\ FlagCleared(c.kind)
       /\ calls' = [calls EXCEPT ![i] = EndedCall]
       /\ UNCHANGED <<store, nextId, last, inflight, moves, drag>>

InitBusy ==
  /\ store \in FlightStores
  /\ nextId = Cardinality(DOMAIN store) + 1
  /\ tree = Assemble(store)
  /\ error = ""
  /\ stale = 0
  /\ last = NoOp
  /\ inflight = <<>>
  /\ moves = <<>>
  /\ activeId = Null /\ overId = Null
  /\ renamingId = Null /\ creatingId = Null /\ deletingId = Null
  /\ calls = <<>>

NextBusy ==
  \/ RenameBegin
  \/ CreateBegin
  \/ DeleteBegin
  \/ CallServed
  \/ CallAnswered
  \/ CallFetchServed
  \/ CallFetchAnswered

SpecBusy == InitBusy /\ [][NextBusy]_vars

\* ============================================================ properties

\* The request that reached the server in the last operation, if any.
Reached(kind) == Len(last.sent) = 1 /\ last.sent[1].kind = kind
Succeeded(kind) == Reached(kind) /\ last.ok
Sent == last.sent[1]

Index(seq, x) == CHOOSE i \in 1..Len(seq) : seq[i] = x

\* The sibling lists of a displayed tree, and the ids of one.
RECURSIVE ListsOf(_)
ListsOf(list) ==
  {list} \cup UNION {ListsOf(list[i].children) : i \in 1..Len(list)}

IdsOf(list) == [i \in 1..Len(list) |-> list[i].id]

ListWith(nodes, id) == CHOOSE l \in ListsOf(nodes) : id \in Range(IdsOf(l))

Displayed(nodes, id) == CHOOSE n \in TreeNodes(nodes) : n.id = id

\* The parent values that name a sibling group of a table.
GroupsOf(st) == {Null} \cup {st[i].parent_id : i \in DOMAIN st}

OrdersDense(st) ==
  \A p \in GroupsOf(st) :
     {st[i].order : i \in GroupIds(st, p)} = 1..Cardinality(GroupIds(st, p))

TreeDense(nodes) ==
  \A l \in ListsOf(nodes) : {l[i].order : i \in 1..Len(l)} = 1..Len(l)

\* C1: in every state (so after every mutation and every sequence of them)
\* the order values of each sibling group of the persisted table are exactly
\* 1..N, and so are those of every sibling list the client displays, the
\* optimistically reordered tree included.
C1_OrdersDense ==
  /\ OrdersDense(store)
  /\ TreeDense(tree)
  /\ TreeDense(last.shown)

\* C1 happens: a drop reordered a list of three locally and on the server.
C1_Witness ==
  /\ last.by = "ui"
  /\ Succeeded("move")
  /\ last.shown # last.preTree
  /\ store # last.pre
  /\ \E l \in ListsOf(last.shown) : Len(l) = 3 /\ Sent.section_id \in Range(IdsOf(l))

\* new is old with s taken out and put back immediately before/after t.
Reinserted(old, new, s, t, position) ==
  /\ Len(new) = Len(old)
  /\ Range(new) = Range(old)
  /\ Without(new, s) = Without(old, s)
  /\ Index(new, s) = Index(new, t) + (IF position = "before" THEN -1 ELSE 1)

\* C2: a successful Move of two siblings leaves their group as the old
\* sequence with sectionId removed and reinserted immediately before/after
\* the target, renumbered 1..N; the client's optimistic reorder does the same
\* to the displayed list; A, B, C with Move(A, C, after) gives B, C, A.
C2_MoveReinserts ==
  /\ Succeeded("move") =>
       LET p == last.pre[Sent.section_id].parent_id
           old == getSiblings(last.pre, p)
           new == getSiblings(store, p)
       IN /\ Reinserted(old, new, Sent.section_id, Sent.target_section_id, Sent.position)
          /\ \A i \in 1..Len(new) : store[new[i]].order = i
          /\ (Len(old) = 3 /\ Sent.section_id = old[1] /\ Sent.target_section_id = old[3]
              /\ Sent.position = "after")
             => new = <<old[2], old[3], old[1]>>
  /\ (Reached("move") /\ last.by = "ui") =>
       LET old == ListWith(last.preTree, Sent.section_id)
           new == ListWith(last.shown, Sent.section_id)
       IN /\ Reinserted(IdsOf(old), IdsOf(new),
                        Sent.section_id, Sent.target_section_id, Sent.position)
          /\ \A i \in 1..Len(new) : new[i].order = i

\* C2 happens: a drop moved a node up past at least two siblings.
C2_Witness ==
  /\ last.by = "ui"
  /\ Succeeded("move")
  /\ LET old == getSiblings(last.pre, last.pre[Sent.section_id].parent_id)
     IN Index(old, Sent.section_id) > Index(old, Sent.target_section_id) + 1

\* C3: a Move of two nodes with different parents fails with Conflict and
\* leaves the persisted table as it was; a drop on a row the display shows
\* under another parent sets the error, sends nothing and leaves the display
\* and the table as they were.
C3_CrossParentRejected ==
  /\ (/\ Reached("move")
      /\ Sent.section_id \in DOMAIN last.pre
      /\ Sent.target_section_id \in DOMAIN last.pre
      /\ last.pre[Sent.section_id].parent_id # last.pre[Sent.target_section_id].parent_id)
     => (~last.ok /\ last.err = "ConflictError" /\ store = last.pre)
  /\ (/\ last.by = "ui" /\ last.op = "drop"
      /\ last.args.targetId # Null
      /\ Displayed(last.preTree, last.args.sectionId).parent_id
           # Displayed(last.preTree, last.args.targetId).parent_id)
     => /\ error = "Cross-parent moves are not allowed."
        /\ last.sent = <<>>
        /\ tree = last.preTree
        /\ store = last.pre

\* C3 happens: a row was dropped on a row of another parent.
C3_Witness ==
  /\ last.by = "ui" /\ last.op = "drop"
  /\ last.args.targetId # Null
  /\ Displayed(last.preTree, last.args.sectionId).parent_id
       # Displayed(last.preTree, last.args.targetId).parent_id
  /\ error = "Cross-parent moves are not allowed."

\* The node reached from i by n parent links; Null past a root or a
\* dangling link.
RECURSIVE Climb(_, _, _)
Climb(st, i, n) ==
  IF i = Null \/ i \notin DOMAIN st THEN Null
  ELSE IF n = 0 THEN i
  ELSE Climb(st, st[i].parent_id, n - 1)

\* i is d or has d among its ancestors.
Under(st, i, d) == \E n \in 0..Cardinality(DOMAIN st) : Climb(st, i, n) = d

\* seq restricted to the members of S, in order.
Kept(seq, S) == SelectSeq(seq, LAMBDA y : y \in S)

\* C4: a successful Delete(id, lift_children) removes the node id alone; its
\* direct children take its parent and stand, in their prior order, in the
\* slot it had among its siblings; every other node keeps parent, name and
\* relative order; P[A, B[X, Y], C] without B is P[A, X, Y, C].
C4_LiftChildren ==
  (Succeeded("delete") /\ Sent.strategy = "lift_children") =>
    LET d == Sent.id
        pre == last.pre
        p == pre[d].parent_id
        old == getSiblings(pre, p)
        new == getSiblings(store, p)
        at == Index(old, d)
    IN /\ DOMAIN store = (DOMAIN pre) \ {d}
       /\ \A i \in DOMAIN store :
            /\ store[i].name = pre[i].name
            /\ store[i].parent_id = IF pre[i].parent_id = d THEN p ELSE pre[i].parent_id
       /\ new = SubSeq(old, 1, at - 1) \o getSiblings(pre, d) \o SubSeq(old, at + 1, Len(old))
       /\ \A i \in 1..Len(new) : store[new[i]].order = i
       /\ \A q \in GroupsOf(pre) \ {p, d} : getSiblings(store, q) = getSiblings(pre, q)
       /\ (pre = ExampleStore /\ d = 3) => getSiblings(store, 1) = <<2, 5, 6, 4>>

\* C4 happens: a node between two siblings was deleted and its two children,
\* one of them with a child of its own or not, were lifted.
C4_Witness ==
  /\ Succeeded("delete") /\ Sent.strategy = "lift_children"
  /\ Len(getSiblings(last.pre, Sent.id)) = 2
  /\ LET old == getSiblings(last.pre, last.pre[Sent.id].parent_id)
     IN Len(old) = 3 /\ old[2] = Sent.id

\* C5: a successful Delete(id, cascade) removes the node id and every node
\* that has it among its ancestors, and nothing else; the remaining nodes
\* keep parent and name and every sibling group keeps its relative order,
\* renumbered 1..N.  The client asks for cascade exactly when the row shows
\* children and the user confirms; declined, nothing is sent.
C5_CascadeSubtree ==
  /\ (Succeeded("delete") /\ Sent.strategy = "cascade") =>
       LET d == Sent.id
           pre == last.pre
       IN /\ DOMAIN store = {i \in DOMAIN pre : ~Under(pre, i, d)}
          /\ \A i \in DOMAIN store :
               store[i].name = pre[i].name /\ store[i].parent_id = pre[i].parent_id
          /\ \A q \in GroupsOf(pre) :
               getSiblings(store, q) = Kept(getSiblings(pre, q), DOMAIN store)
          /\ OrdersDense(store)
  /\ (last.by = "ui" /\ last.op = "delete" /\ Len(last.args.node.children) > 0) =>
       IF last.args.confirmed
       THEN last.sent = <<[kind |-> "delete", id |-> last.args.node.id,
                           strategy |-> "cascade"]>>
       ELSE last.sent = <<>> /\ store = last.pre /\ tree = last.preTree

\* C5 happens: the user confirmed the deletion of a row with a grandchild,
\* and a sibling stayed behind.
C5_Witness ==
  /\ last.by = "ui" /\ Succeeded("delete") /\ Sent.strategy = "cascade"
  /\ \E i \in DOMAIN last.pre : Climb(last.pre, i, 2) = Sent.id
  /\ \E j \in DOMAIN store : last.pre[j].parent_id = last.pre[Sent.id].parent_id

Forest(st) ==
  /\ \A i \in DOMAIN st : st[i].parent_id # Null => st[i].parent_id \in DOMAIN st
  /\ \A i \in DOMAIN st : Climb(st, i, Cardinality(DOMAIN st)) = Null

\* C6: in every state the persisted nodes form a forest: every non-null
\* parent_id names an existing node, and from any node the parent links
\* reach a root within as many steps as there are nodes.
C6_Forest == Forest(store)

\* C6 happens: an import committed a batch that holds a parent and its
\* child into a table that already had a node.
C6_Witness ==
  /\ Succeeded("import")
  /\ last.pre # EmptyStore
  /\ \E i \in (DOMAIN store) \ (DOMAIN last.pre) :
       store[i].parent_id \in (DOMAIN store) \ (DOMAIN last.pre)

ErrorKinds == {"ValidationError", "NotFoundError", "ConflictError", "StoreError"}

\* C7: a request that fails, with any of the four error kinds and at any
\* write of the transaction, leaves the persisted table and the id counter
\* as they were; Delete of an id that is not in the table fails with
\* NotFound and changes nothing.
C7_FailureChangesNothing ==
  /\ (Len(last.sent) = 1 /\ ~last.ok) =>
       /\ last.err \in ErrorKinds
       /\ store = last.pre
       /\ nextId = last.preNextId
  /\ (Reached("delete") /\ Sent.id \notin DOMAIN last.pre) =>
       /\ ~last.ok
       /\ last.err = "NotFoundError"
       /\ store = last.pre

\* C7 happens: the store failed during a lift of two children, an operation
\* of several row writes.
C7_Witness ==
  /\ Reached("delete") /\ Sent.strategy = "lift_children"
  /\ ~last.ok /\ last.err = "StoreError"
  /\ Sent.id \in DOMAIN last.pre
  /\ Len(getSiblings(last.pre, Sent.id)) = 2

\* The (id, parent_id) pairs and the children of each node of a display.
Parents(nodes) == {<<n.id, n.parent_id>> : n \in TreeNodes(nodes)}
Members(nodes) ==
  {<<Null, Len(nodes), Range(IdsOf(nodes))>>}
    \cup {<<n.id, Len(n.children), Range(IdsOf(n.children))>> : n \in TreeNodes(nodes)}

\* C8: a node that survives an operation with another parent_id survived a
\* Delete(lift_children) or an import; a Move leaves every node's parent_id
\* and name and the set of nodes as they were; the client's reorder leaves
\* every displayed node's parent_id and every sibling list's members as
\* they were.
C8_MoveKeepsParents ==
  /\ \A i \in (DOMAIN store) \cap (DOMAIN last.pre) :
       store[i].parent_id # last.pre[i].parent_id =>
         \/ Reached("delete") /\ Sent.strategy = "lift_children"
         \/ Reached("import")
  /\ Reached("move") =>
       /\ DOMAIN store = DOMAIN last.pre
       /\ \A i \in DOMAIN store :
            /\ store[i].parent_id = last.pre[i].parent_id
            /\ store[i].name = last.pre[i].name
  /\ last.op = "drop" =>
       /\ Parents(last.shown) = Parents(last.preTree)
       /\ Members(last.shown) = Members(last.preTree)

\* C8 happens: a drop reordered the children of a node, on the display and
\* in the table.
C8_Witness ==
  /\ last.by = "ui" /\ Succeeded("move")
  /\ last.pre[Sent.section_id].parent_id # Null
  /\ last.shown # last.preTree
  /\ store # last.pre

\* C9: a Move of a node relative to itself fails with Conflict and leaves
\* the table as it was; a row dropped on itself sends nothing and leaves
\* the display, the error and the table as they were.
C9_SelfMoveRejected ==
  /\ (Reached("move") /\ Sent.section_id = Sent.target_section_id) =>
       (~last.ok /\ last.err = "ConflictError" /\ store = last.pre)
  /\ (last.by = "ui" /\ last.op = "drop"
      /\ last.args.sectionId = last.args.targetId) =>
       /\ last.sent = <<>>
       /\ tree = last.preTree
       /\ last.shown = last.preTree
       /\ store = last.pre
       /\ error = last.preError

\* C9 happens: a row of a display of two rows was dropped on itself.
C9_Witness ==
  /\ last.by = "ui" /\ last.op = "drop"
  /\ last.args.sectionId = last.args.targetId
  /\ Cardinality(TreeIds(tree)) >= 2

\* A successful Create with an anchor puts the new node under the anchor's
\* parent, immediately before/after the anchor; without an anchor it puts it
\* last under parent_id (last root for null); every other node keeps parent,
\* name and relative order.
CreatePlaced ==
  Succeeded("create") =>
    LET n == last.preNextId
        pre == last.pre
        a == Sent.anchor_section_id
        p == IF a # Null THEN pre[a].parent_id ELSE Sent.parent_id
        new == getSiblings(store, p)
    IN /\ DOMAIN store = (DOMAIN pre) \cup {n}
       /\ n \notin DOMAIN pre
       /\ store[n].parent_id = p
       /\ store[n].name = Sent.name
       /\ IF a # Null
          THEN Index(new, n) = Index(new, a)
                                 + (IF Sent.anchor_position = "before" THEN -1 ELSE 1)
          ELSE new[Len(new)] = n
       /\ \A i \in DOMAIN pre :
            store[i].parent_id = pre[i].parent_id /\ store[i].name = pre[i].name
       /\ \A q \in GroupsOf(store) :
            Kept(getSiblings(store, q), DOMAIN pre) = getSiblings(pre, q)
       /\ OrdersDense(store)

\* "Add sibling" on a row asks for anchor = the row, parent_id = the row's
\* parent_id, position after; "add child" asks for parent_id = the row and
\* no anchor.
CreateAsked ==
  (last.by = "ui" /\ last.op = "create" /\ trim(last.args.draft) # <<>>) =>
    LET node == last.args.node
    IN last.sent =
         <<IF last.args.addMode = "sibling"
           THEN [kind |-> "create", name |-> trim(last.args.draft),
                 parent_id |-> node.parent_id, anchor_section_id |-> node.id,
                 anchor_position |-> "after"]
           ELSE [kind |-> "create", name |-> trim(last.args.draft),
                 parent_id |-> node.id, anchor_section_id |-> Null,
                 anchor_position |-> "after"]>>

\* A request of the client that names an anchor the table holds.
AnchoredByClient ==
  /\ last.by = "ui" /\ Reached("create")
  /\ Sent.anchor_section_id # Null
  /\ Sent.anchor_section_id \in DOMAIN last.pre

\* C10 as stated: placement and request shape as above, and the parent_id
\* the client supplies is always the parent of its anchor in the table.
C10_AsStated ==
  /\ CreatePlaced
  /\ CreateAsked
  /\ AnchoredByClient => Sent.parent_id = last.pre[Sent.anchor_section_id].parent_id

\* C10: placement and request shape as above; the parent_id the client
\* supplies is the parent the display shows for its anchor, and it is the
\* anchor's parent in the table whenever the table still holds that parent
\* (or it is null); the client's request never fails for a disagreement of
\* parent and anchor.
C10_CreatePlacement ==
  /\ CreatePlaced
  /\ CreateAsked
  /\ (last.by = "ui" /\ Reached("create") /\ Sent.anchor_section_id # Null) =>
       Sent.parent_id = Displayed(last.preTree, Sent.anchor_section_id).parent_id
  /\ (AnchoredByClient /\ Sent.parent_id \in {Null} \cup DOMAIN last.pre) =>
       Sent.parent_id = last.pre[Sent.anchor_section_id].parent_id
  /\ (last.by = "ui" /\ Reached("create")) => last.err # "ConflictError"

\* C10 happens: "add sibling" on the first of two roots put a node between
\* them.
C10_Witness ==
  /\ last.by = "ui" /\ Succeeded("create")
  /\ last.args.addMode = "sibling"
  /\ LET new == getSiblings(store, Null)
     IN Len(new) = 3 /\ new[1] = Sent.anchor_section_id /\ new[2] = last.preNextId

\* The characters of a draft other than blanks (the drafts have no blank
\* between two others).
NonBlank(text) == SelectSeq(text, LAMBDA ch : ch # " ")

\* C11: a successful Rename leaves the set of nodes, every parent_id and
\* order and every other node's name as they were and gives the node the new
\* name; a Rename to the current name succeeds and changes nothing; a name
\* of blanks only is rejected without change; the client sends no request
\* for a draft that is blank or, without its blanks, the displayed name,
\* and otherwise asks for the draft without its blanks.
C11_RenameOnlyName ==
  /\ Succeeded("rename") =>
       /\ DOMAIN store = DOMAIN last.pre
       /\ \A i \in DOMAIN store :
            /\ store[i].parent_id = last.pre[i].parent_id
            /\ store[i].order = last.pre[i].order
            /\ store[i].name = IF i = Sent.id THEN Sent.name ELSE last.pre[i].name
  /\ (Reached("rename") /\ Sent.id \in DOMAIN last.pre
      /\ NonBlank(Sent.name) # <<>> /\ Sent.name = last.pre[Sent.id].name) =>
       (last.ok /\ store = last.pre)
  /\ (Reached("rename") /\ NonBlank(Sent.name) = <<>>) =>
       (~last.ok /\ last.err = "ValidationError" /\ store = last.pre)
  /\ (last.by = "ui" /\ last.op = "rename") =>
       LET draft == last.args.draft
           node == last.args.node
       IN IF NonBlank(draft) = <<>> \/ NonBlank(draft) = node.name
          THEN last.sent = <<>> /\ store = last.pre /\ tree = last.preTree
          ELSE last.sent = <<[kind |-> "rename", id |-> node.id, name |-> NonBlank(draft)]>>

\* C11 happens: the user renamed one of two nodes that had the same name.
C11_Witness ==
  /\ last.by = "ui" /\ Succeeded("rename")
  /\ store # last.pre
  /\ \E i \in DOMAIN store : i # Sent.id /\ store[i].name = last.pre[Sent.id].name

\* The table with all the writes of the transactions of S in it.
RECURSIVE WithAll(_, _)
WithAll(st, S) ==
  IF S = {} THEN st
  ELSE LET t == CHOOSE u \in S : TRUE
       IN WithAll(WithWrites(st, inflight[t].post,
                             ChangedIds(inflight[t].pre, inflight[t].post)),
                  S \ {t})

\* C12: with requests overlapping, a fetch that succeeds returns the table
\* with each open mutation either not applied at all or applied completely,
\* never a table with part of a mutation's writes; two open transactions
\* never hold the same sibling group; and the orders of every group are
\* 1..N in the committed table and in every fetched tree.
C12_AtomicMutations ==
  /\ (last.op = "fetch" /\ last.ok) =>
       \E S \in SUBSET Open : tree = Assemble(WithAll(store, S))
  /\ \A t \in Open : \A u \in Open \ {t} : HeldBy(t) \cap HeldBy(u) = {}
  /\ OrdersDense(store)
  /\ TreeDense(tree)

\* C12 happens: a fetch ran while one transaction had written some of its
\* rows and another had committed.
C12_Witness ==
  /\ last.op = "fetch" /\ last.ok
  /\ \E t \in Open :
       /\ inflight[t].written > 0
       /\ inflight[t].written < Cardinality(ChangedIds(inflight[t].pre, inflight[t].post))
  /\ \E u \in DOMAIN inflight : inflight[u].phase = "committed"

\* Two records of the batch have one key (the supplied one, else the
\* position), or some record is its own ancestor by the parent references.
KeyTwice(records) ==
  \E i \in 1..Len(records) : \E j \in (1..Len(records)) \ {i} :
     InternalKey(records, i) = InternalKey(records, j)

OwnAncestor(records) ==
  \E i \in 1..Len(records) : \E n \in 1..Len(records) : Ancestor(records, i, n) = i

\* C13: an import of a batch with a key used twice or with a record that is
\* its own ancestor ends in ValidationError (never in a store failure, so
\* before any write), and leaves the table and the id counter as they were:
\* no record of the batch is in the table.
C13_ImportRejected ==
  (Reached("import") /\ (KeyTwice(Sent.records) \/ OwnAncestor(Sent.records))) =>
    /\ ~last.ok
    /\ last.err = "ValidationError"
    /\ store = last.pre
    /\ nextId = last.preNextId

\* C13 happens: a batch of two records that name each other as parent was
\* sent to a table that holds nodes.
C13_Witness ==
  /\ Reached("import")
  /\ Len(Sent.records) = 2
  /\ OwnAncestor(Sent.records) /\ ~KeyTwice(Sent.records)
  /\ last.err = "ValidationError"
  /\ last.pre # EmptyStore

\* The records of a batch without a parent in it, and those that no record
\* of it names as parent.
BatchRoots(records) ==
  {i \in 1..Len(records) :
     \/ records[i].parent_key = ""
     \/ \A j \in 1..Len(records) : InternalKey(records, j) # records[i].parent_key}

BatchLeaves(records) ==
  {i \in 1..Len(records) :
     \A j \in 1..Len(records) : records[j].parent_key # InternalKey(records, i)}

\* C14: a successful import answers inserted = the number of records (and of
\* nodes added), roots = the number of records without a parent in the
\* batch (the added nodes with parent_id null), leaves = the number of
\* records no record names as parent (the added nodes without children); the
\* client's message carries the three numbers; a key with a child of that
\* key gives 2 inserted, 1 root, 1 leaf.
C14_ImportCounts ==
  Succeeded("import") =>
    LET records == Sent.records
        response == last.args.response
        added == {last.preNextId + i - 1 : i \in 1..Len(records)}
    IN /\ response.inserted = Len(records)
       /\ response.roots = Cardinality(BatchRoots(records))
       /\ response.leaves = Cardinality(BatchLeaves(records))
       /\ added \subseteq DOMAIN store
       /\ added \cap DOMAIN last.pre = {}
       /\ (DOMAIN store) \ added \subseteq DOMAIN last.pre
       /\ response.roots = Cardinality({n \in added : store[n].parent_id = Null})
       /\ response.leaves = Cardinality({n \in added : GroupIds(store, n) = {}})
       /\ last.by = "ui" =>
            last.args.info = <<"Imported", Len(records),
                               "roots", Cardinality(BatchRoots(records)),
                               "leaves", Cardinality(BatchLeaves(records))>>
       /\ records = <<ImportRecord("k1", <<"a">>, "", 2), ImportRecord("k2", <<"b">>, "k1", 0)>>
            => (response.inserted = 2 /\ response.roots = 1 /\ response.leaves = 1)

\* C14 happens: the user imported a record and two children of it.
C14_Witness ==
  /\ last.by = "ui" /\ Succeeded("import")
  /\ last.args.response.inserted = 3
  /\ last.args.response.roots = 1
  /\ last.args.response.leaves = 2

\* The parent of a node by its place in a nested tree, and its position
\* (from 1) in its list.
ParentIn(nodes, id) ==
  IF id \in Range(IdsOf(nodes)) THEN Null
  ELSE (CHOOSE n \in TreeNodes(nodes) : id \in Range(IdsOf(n.children))).id

PositionIn(nodes, id) == Index(IdsOf(ListWith(nodes, id)), id)

\* The rank (from 1) of a node among its siblings of the table, by order.
RankOf(st, i) ==
  Cardinality({j \in GroupIds(st, st[i].parent_id) : st[j].order <= st[i].order})

\* C15: the nested tree assembled from the table, flattened again, is the
\* table: the same ids, each once, each under the parent the table gives it
\* (the roots being the nodes with parent_id null), with its name, at the
\* position its order gives it among its siblings; the client's flattening
\* (getNodeMeta) gives every node its parent_id and order; a reload that
\* succeeds shows that tree.
C15_AssembleRoundTrip ==
  LET nested == Assemble(store)
      meta == getNodeMeta(nested)
  IN /\ TreeIds(nested) = DOMAIN store
     /\ DOMAIN meta = DOMAIN store
     /\ \A i \in DOMAIN store :
          /\ Cardinality({l \in ListsOf(nested) : i \in Range(IdsOf(l))}) = 1
          /\ Cardinality({k \in 1..Len(ListWith(nested, i)) :
                            ListWith(nested, i)[k].id = i}) = 1
          /\ ParentIn(nested, i) = store[i].parent_id
          /\ PositionIn(nested, i) = RankOf(store, i)
          /\ Displayed(nested, i).name = store[i].name
          /\ meta[i] = [parentId |-> store[i].parent_id, order |-> store[i].order]
     /\ (last.op = "reload" /\ error = "") => tree = nested

\* C15 happens: a reload fetched the tree of P[A, B[X, Y], C].
C15_Witness ==
  /\ last.op = "reload" /\ error = ""
  /\ store = ExampleStore
  /\ ParentIn(tree, 6) = 3
  /\ PositionIn(tree, 6) = 2

\* The list the client renumbers in a drop: the nodes as displayed before,
\* in the sequence displayed after.
Respliced ==
  LET after == ListWith(last.shown, Sent.section_id)
  IN [i \in 1..Len(after) |-> Displayed(last.preTree, after[i].id)]

\* C16: renumbering gives the node at position i the order i, keeps the
\* sequence and every other field, and renumbering again changes nothing:
\* for the list the client renumbers in a drop (normalizeLocalOrders), and
\* for every sibling group of the table (Order Codec).
C16_RenumberByPosition ==
  /\ (last.op = "drop" /\ Reached("move")) =>
       LET raw == Respliced
           out == normalizeLocalOrders(raw)
       IN /\ out = ListWith(last.shown, Sent.section_id)
          /\ Len(out) = Len(raw)
          /\ \A i \in 1..Len(raw) :
               /\ out[i].order = i
               /\ out[i] = [raw[i] EXCEPT !.order = i]
          /\ normalizeLocalOrders(out) = out
  /\ \A p \in GroupsOf(store) :
       LET seq == getSiblings(store, p)
           codec == OrderCodec(seq)
       IN /\ DOMAIN codec = Range(seq)
          /\ \A i \in 1..Len(seq) : codec[seq[i]] = i
          /\ getSiblings(PersistOrders(store, seq), p) = seq
          /\ Renumber(Renumber(store, p), p) = Renumber(store, p)
          /\ \A n \in DOMAIN store :
               Renumber(store, p)[n] = [store[n] EXCEPT !.order = Renumber(store, p)[n].order]

\* C16 happens: a drop moved the last of three siblings to the front, so
\* that every node of the list got a new order.
C16_Witness ==
  /\ last.op = "drop" /\ Reached("move")
  /\ Len(Respliced) = 3
  /\ \A i \in 1..3 : Respliced[i].order # i

\* The fixed message of each request of the client.
FallbackOf(op) ==
  CASE op = "drop" -> "Move failed"
    [] op = "rename" -> "Rename failed"
    [] op = "create" -> "Create failed"
    [] op = "delete" -> "Delete failed"
    [] op = "import" -> "Import failed"
    [] OTHER -> "Failed to load sections"

ByClient == last.by = "ui" /\ Len(last.sent) = 1

\* C17: a request of the client that is refused leaves in the error state
\* the detail of the response, or the request's fixed message when the
\* response has none: for the five mutations and for the fetch, the fetch
\* that follows a successful mutation included; a handler whose requests
\* all succeed leaves the error state empty.
C17_ErrorsSurface ==
  /\ (ByClient /\ ~last.ok) =>
       /\ last.detail \in {"", last.err}
       /\ error = IF last.detail # "" THEN last.detail ELSE FallbackOf(last.op)
       /\ ~last.fetch.ran
  /\ (ByClient /\ last.fetch.ran /\ ~last.fetch.ok) =>
       error = IF last.fetch.detail # "" THEN last.fetch.detail
               ELSE "Failed to load sections"
  /\ (ByClient /\ last.ok /\ last.fetch.ok) =>
       (error = "" /\ last.fetch.ran)

\* C17 happens: a move was refused without a detail after an earlier
\* request had left another message.
C17_Witness ==
  /\ ByClient /\ last.op = "drop"
  /\ ~last.ok /\ last.detail = ""
  /\ error = "Move failed"
  /\ last.preError \notin {"", "Move failed"}

\* C18: when the display is the persisted tree and a drop on a sibling is
\* served, the tree the client shows while the request runs (its local
\* reorder with the position it chose) is the tree assembled from the table
\* after the Move: the same sequence and the same orders in every group;
\* and it is the tree the following fetch brings.
C18_OptimisticMatchesServer ==
  (last.op = "drop" /\ Succeeded("move") /\ last.preTree = Assemble(last.pre)) =>
    /\ last.shown = Assemble(store)
    /\ \A p \in GroupsOf(store) :
         \A i \in 1..Len(getSiblings(store, p)) :
            LET n == Displayed(last.shown, getSiblings(store, p)[i])
            IN n.order = i /\ PositionIn(last.shown, n.id) = i /\ n.parent_id = p
    /\ last.fetch.ok => tree = last.shown

\* C18 happens: a drop moved a child down past two of its siblings.
C18_Witness ==
  /\ last.op = "drop" /\ Succeeded("move")
  /\ last.preTree = Assemble(last.pre)
  /\ last.pre[Sent.section_id].parent_id # Null
  /\ PositionIn(last.preTree, Sent.section_id) = 1
  /\ PositionIn(last.shown, Sent.section_id) = 3

\* The order o of a sibling after the node of order from took the order to:
\* the siblings between the two move one towards from.
Shifted(o, from, to) ==
  IF o = from THEN to
  ELSE IF from < o /\ o <= to THEN o - 1
  ELSE IF to <= o /\ o < from THEN o + 1
  ELSE o

C20_AsStated ==
  (last.op = "drop" /\ Reached("move") /\ ~last.ok /\ InFlight = {} /\ stale = 0) =>
    tree = Assemble(store)

\* What onDeleteSection does with a row, whatever the table holds: a row
\* shown with children is deleted with cascade when the user confirms and
\* not at all when the user declines; a row shown without children is
\* deleted with lift_children, prompt or no prompt.
DeletePrompted ==
  LET node == last.args.node
  IN /\ (Len(node.children) > 0 /\ last.args.confirmed) =>
          last.sent = <<[kind |-> "delete", id |-> node.id, strategy |-> "cascade"]>>
     /\ (Len(node.children) > 0 /\ ~last.args.confirmed) =>
          /\ last.sent = <<>>
          /\ tree = last.preTree /\ store = last.pre /\ error = last.preError
     /\ Len(node.children) = 0 =>
          last.sent = <<[kind |-> "delete", id |-> node.id, strategy |-> "lift_children"]>>

\* The nodes that are in the table before and after the last operation and
\* have another parent after it.
Reparented == {n \in DOMAIN last.pre \cap DOMAIN store : store[n].parent_id # last.pre[n].parent_id}

\* C21 as stated: the prompt and the strategy as above, and no delete of the
\* client ever gives a node another parent.
C21_AsStated ==
  (last.by = "ui" /\ last.op = "delete") =>
    /\ DeletePrompted
    /\ Reparented = {}

\* C21: the prompt and the strategy as above; a delete of the client gives
\* no node another parent when the row it deletes is shown with children or
\* has none in the table.  (A row shown as a leaf that has children in the
\* table is deleted with lift_children, and they are lifted.)
C21_DeletePrompt ==
  (last.by = "ui" /\ last.op = "delete") =>
    /\ DeletePrompted
    /\ (Len(last.args.node.children) > 0 \/ GroupIds(last.pre, last.args.node.id) = {}) =>
         Reparented = {}
    /\ Reparented # {} =>
         /\ Succeeded("delete") /\ Sent.strategy = "lift_children"
         /\ Reparented = GroupIds(last.pre, last.args.node.id)

\* C21 happens: a confirmed delete of a row shown with children removed the
\* row and its children from the table.
C21_Witness ==
  /\ last.by = "ui" /\ last.op = "delete" /\ Succeeded("delete")
  /\ Len(last.args.node.children) > 0 /\ last.args.confirmed
  /\ GroupIds(last.pre, last.args.node.id) # {}
  /\ GroupIds(last.pre, last.args.node.id) \cap DOMAIN store = {}

\* C22 as stated: once every request and every reload has completed, with no
\* failure to report (a failed request or reload leaves its message in
\* error), the tree on display is the persisted one, in whatever order the
\* responses arrived.
C22_AsStated ==
  (Len(moves) > 0 /\ InFlight = {} /\ error = "") =>
    tree = Assemble(store)

\* C23 as stated: when the handler of a drop or of a cancel has finished,
\* activeId and overId are both null, whatever the handler did with the drop.
C23_AsStated ==
  (last.by = "ui" /\ last.op \in {"drop", "cancel"}) =>
    activeId = Null /\ overId = Null

\* The flag of a kind of call.
FlagOf(kind) ==
  IF kind = "rename" THEN renamingId
  ELSE IF kind = "create" THEN creatingId
  ELSE deletingId

CallsOf(kind) == {i \in InCall : calls[i].kind = kind}

\* C24 as stated: while a rename, create or delete of a row is in flight,
\* the flag of its kind names that row, whatever other calls are in flight;
\* and a flag is null when no call of its kind is in flight.
C24_AsStated ==
  /\ \A i \in InCall : FlagOf(calls[i].kind) = calls[i].node
  /\ \A kind \in {"rename", "create", "delete"} :
       CallsOf(kind) = {} => FlagOf(kind) = Null

====
